---- MODULE Spec2Model ----
(***************************************************************************)
(* Model of cli/src/commands/developer/scan.rs (snarkOS `developer scan`). *)
(*                                                                         *)
(* One behaviour is one invocation: either Scan::parse on a constructed    *)
(* Scan struct, or the public associated function Scan::fetch_records      *)
(* called directly.  The remote node is an honest static data set whose    *)
(* requests may fail; every request the client issues is appended to log.  *)
(***************************************************************************)
EXTENDS Integers, Sequences, FiniteSets, TLC

\* ------------------------------------------------------------------ bounds
\* Largest value of the unsigned height type.  The program uses u32; the
\* model keeps the saturating arithmetic and scales the width down.
U32_MAX == 255
\* Widest scan range (end - start) drawn as an input.
MaxSpan == 101
\* Cap on the number of block-page requests of one invocation.
MaxPages == 7

\* ------------------------------------------------------- program constants
MAX_BLOCK_RANGE == 50

\* Option<T>
None == << >>
Some(x) == <<x>>

Min(a, b) == IF a <= b THEN a ELSE b

\* u32::saturating_sub / u32::saturating_add
saturating_sub(a, b) == IF a >= b THEN a - b ELSE 0
saturating_add(a, b) == IF a + b > U32_MAX THEN U32_MAX ELSE a + b

\* --------------------------------------------------------------- credentials
\* Command-line strings.  Two well-formed private keys, three well-formed view
\* keys (the third belongs to no private key of the model) and one malformed
\* string of each kind.
PrivateKeyStrings == {"APrivateKey1a", "APrivateKey1b", "APrivateKey1?"}
ViewKeyStrings == {"AViewKey1a", "AViewKey1b", "AViewKey1c", "AViewKey1?"}

\* Result<T>.  The error kinds are the spec's names for the anyhow errors.
Err(kind) == [ok |-> FALSE, val |-> << >>, err |-> kind]
Ok(v) == [ok |-> TRUE, val |-> v, err |-> ""]

\* PrivateKey::from_str
PrivateKey_from_str(s) ==
    CASE s = "APrivateKey1a" -> Ok([sk |-> "a"])
      [] s = "APrivateKey1b" -> Ok([sk |-> "b"])
      [] OTHER -> Err("InvalidCredentialFormat")

\* ViewKey::from_str
ViewKey_from_str(s) ==
    CASE s = "AViewKey1a" -> Ok([vk |-> "a"])
      [] s = "AViewKey1b" -> Ok([vk |-> "b"])
      [] s = "AViewKey1c" -> Ok([vk |-> "c"])
      [] OTHER -> Err("InvalidCredentialFormat")

\* ViewKey::try_from(private_key)
ViewKey_try_from(private_key) == [vk |-> private_key.sk]

PrivateKeys == {[sk |-> "a"], [sk |-> "b"]}
ViewKeys == {[vk |-> "a"], [vk |-> "b"], [vk |-> "c"]}

\* view_key.to_address().to_x_coordinate()
to_x_coordinate(view_key) == <<"x", view_key.vk>>

\* Record::serial_number(private_key, commitment)
serial_number(private_key, commitment) == <<"sn", private_key.sk, commitment>>

\* --------------------------------------------------------------- the node
\* A ciphertext record as it appears in a block: the ownership tag, the
\* commitment it is keyed by, and whether its payload decodes.
Cipher(cm, owner, sound) ==
    [commitment |-> cm, tag |-> <<"x", owner>>, sound |-> sound]

\* The static data sets the endpoint may serve: the chain tip, the records of
\* the non-empty blocks, and the serial numbers that have a spending transition.
Nodes ==
    { [latest_height |-> 0,
       records |-> << >>,
       spent |-> {}],
      [latest_height |-> 100,
       records |-> << <<0, <<Cipher(1, "a", TRUE), Cipher(2, "b", TRUE)>> >>,
                      <<3, <<Cipher(3, "a", TRUE)>> >>,
                      <<50, <<Cipher(4, "b", TRUE), Cipher(5, "a", TRUE)>> >>,
                      <<100, <<Cipher(6, "a", TRUE)>> >> >>,
       spent |-> {<<"sn", "a", 3>>, <<"sn", "a", 6>>, <<"sn", "b", 4>>}],
      [latest_height |-> U32_MAX - 1,
       records |-> << <<3, <<Cipher(7, "a", FALSE)>> >>,
                      <<U32_MAX - 55, <<Cipher(8, "a", TRUE), Cipher(9, "b", FALSE)>> >>,
                      <<U32_MAX - 1, <<Cipher(10, "a", TRUE)>> >> >>,
       spent |-> {<<"sn", "a", 8>>, <<"sn", "b", 9>>}],
      [latest_height |-> U32_MAX,
       records |-> << <<U32_MAX, <<Cipher(11, "a", TRUE)>> >> >>,
       spent |-> {}] }

\* block.records() of the block at height h of the node n
RecordsAt(n, h) ==
    LET hit == {i \in 1..Len(n.records) : n.records[i][1] = h}
    IN  IF hit = {} THEN << >> ELSE n.records[CHOOSE i \in hit : TRUE][2]

\* GET /testnet3/blocks?start=s&end=e answered by the node n: the blocks of
\* the heights s..e-1 that exist, in ascending height order.
BlocksResponse(n, s, e) ==
    LET top == Min(e, n.latest_height + 1)
        cnt == IF top > s THEN top - s ELSE 0
    IN  [i \in 1..cnt |-> [height |-> s + i - 1, records |-> RecordsAt(n, s + i - 1)]]

\* The (commitment, ciphertext_record) pairs of a page in the order of the two
\* nested for loops: blocks as received, records as they appear in a block.
RECURSIVE Flatten(_)
Flatten(bs) ==
    IF Len(bs) = 0 THEN << >>
    ELSE IF Len(bs) = 1 THEN bs[1].records
    ELSE LET half == Len(bs) \div 2
         IN  Flatten(SubSeq(bs, 1, half)) \o Flatten(SubSeq(bs, half + 1, Len(bs)))

\* Mutant of is_owner: every record passes the ownership test.
is_owner_always(ciphertext_record, address_x_coordinate) == TRUE

\* ciphertext_record.is_owner_with_address_x_coordinate(view_key, x)
is_owner(ciphertext_record, address_x_coordinate) ==
    ciphertext_record.tag = address_x_coordinate

\* ciphertext_record.decrypt(view_key): fails unless the view key is the
\* owner's and the payload decodes.
decrypt(ciphertext_record, view_key) ==
    IF ciphertext_record.tag = to_x_coordinate(view_key) /\ ciphertext_record.sound
    THEN Ok([commitment |-> ciphertext_record.commitment,
             owner |-> view_key.vk,
             plaintext |-> TRUE])
    ELSE Err("DecryptionFailed")

\* ------------------------------------------------------------------ inputs
StartHeights == {0, 1, 5, U32_MAX - 60, U32_MAX - 10, U32_MAX}
EndHeights == {0, 5, 50, 51, 100, 101, U32_MAX - 10, U32_MAX - 1, U32_MAX}

\* (start, end) pairs drawn as inputs: every inverted or empty pair, and every
\* proper range no wider than MaxSpan.
RangeOk(s, e) == e <= s \/ e - s <= MaxSpan

\* The Scan structs (clap arguments other than the endpoint address).
Scans ==
    { sc \in [private_key : {None} \cup {Some(k) : k \in PrivateKeyStrings},
              view_key : {None} \cup {Some(k) : k \in ViewKeyStrings},
              start : StartHeights,
              end : {None} \cup {Some(e) : e \in EndHeights}] :
        sc.end = None \/ RangeOk(sc.start, sc.end[1]) }

\* Argument lists of a direct call of Scan::fetch_records.
FetchArgs ==
    { a \in [private_key : {None} \cup {Some(k) : k \in PrivateKeys},
             view_key : {[vk |-> "a"], [vk |-> "b"]},
             start_height : StartHeights,
             end_height : EndHeights] :
        RangeOk(a.start_height, a.end_height) }

\* ------------------------------------------------------------------- state
VARIABLES
    scan,           \* Some(the Scan struct) when Scan::parse is the entry
    args,           \* Some(argument list) when fetch_records is called directly
    node,           \* the data set behind the endpoint
    pc,             \* position of the invocation
    private_key,    \* Option<PrivateKey>
    view_key,       \* Option<ViewKey> (None until resolved)
    start_height,   \* fetch_records' start_height
    end_height,     \* Option<u32>: the resolved end / fetch_records' end_height
    request_start,  \* the paging loop's position
    blocks,         \* the page being scanned
    cursor,         \* index of the next record of the page
    records,        \* fetch_records' accumulator
    result,         \* Option<Result>: what the entry function returned
    stdout,         \* advisories printed so far
    log,            \* every request, ownership test and decryption, in order
    first           \* Option: what an earlier scan of the same input observed

vars == <<scan, args, node, pc, private_key, view_key, start_height, end_height,
          request_start, blocks, cursor, records, result, stdout, log, first>>

Event(op, a, b, res) == [op |-> op, a |-> a, b |-> b, res |-> res]

FullChainWarning == "Attention - Scanning the entire chain. This may take a few minutes..."
SpentWarning == "This list may contain records that have already been spent."

\* Mutant of ParseOrder: the end height is resolved before the credentials.
ParseOrder_range_first == <<"parse_end_height", "parse_account", "fetch_records">>

\* The order in which Scan::parse runs its three steps.
ParseOrder == <<"parse_account", "parse_end_height", "fetch_records">>

\* The step of Scan::parse that follows `step`.
StepAfter(step) ==
    ParseOrder[(CHOOSE i \in 1..Len(ParseOrder) : ParseOrder[i] = step) + 1]

Init ==
    /\ node \in Nodes
    /\ \/ /\ scan \in {Some(sc) : sc \in Scans}
          /\ args = None
          /\ pc = ParseOrder[1]
          /\ private_key = None
          /\ view_key = None
          /\ start_height = 0
          /\ end_height = None
       \/ /\ scan = None
          /\ args \in {Some(a) : a \in FetchArgs}
          /\ pc = "fetch_records"
          /\ private_key = args[1].private_key
          /\ view_key = Some(args[1].view_key)
          /\ start_height = args[1].start_height
          /\ end_height = Some(args[1].end_height)
    /\ request_start = 0
    /\ blocks = << >>
    /\ cursor = 1
    /\ records = << >>
    /\ result = None
    /\ stdout = << >>
    /\ log = << >>
    /\ first = None

\* Mutant of Fail: the records accumulated so far are returned on an error.
Fail_partial(kind) ==
    /\ result' = Some(Ok(records))
    /\ pc' = "done"

\* An error leaves the entry function through `?` / bail! / ensure!.
Fail(kind) ==
    /\ result' = Some(Err(kind))
    /\ pc' = "done"

\* Mutant of parse_account: the ensure! on the derived view key is missing.
parse_account_unchecked(private_key_str, view_key_str) ==
    IF private_key_str # None /\ view_key_str # None THEN
        LET sk == PrivateKey_from_str(private_key_str[1])
            vk == ViewKey_from_str(view_key_str[1])
        IN  IF ~sk.ok THEN Err(sk.err)
            ELSE IF ~vk.ok THEN Err(vk.err)
            ELSE Ok(<<Some(sk.val), vk.val>>)
    ELSE IF private_key_str # None THEN
        LET sk == PrivateKey_from_str(private_key_str[1])
        IN  IF ~sk.ok THEN Err(sk.err)
            ELSE Ok(<<Some(sk.val), ViewKey_try_from(sk.val)>>)
    ELSE IF view_key_str # None THEN
        LET vk == ViewKey_from_str(view_key_str[1])
        IN  IF ~vk.ok THEN Err(vk.err) ELSE Ok(<<None, vk.val>>)
    ELSE Err("MissingCredential")

\* ------------------------------------------------------- Scan::parse_account
\* Mutant of parse_account: a lone private key is used for its view key only.
parse_account_drops_key(private_key_str, view_key_str) ==
    IF private_key_str # None /\ view_key_str # None THEN
        LET sk == PrivateKey_from_str(private_key_str[1])
            vk == ViewKey_from_str(view_key_str[1])
        IN  IF ~sk.ok THEN Err(sk.err)
            ELSE IF ~vk.ok THEN Err(vk.err)
            ELSE IF ViewKey_try_from(sk.val) # vk.val THEN Err("CredentialMismatch")
            ELSE Ok(<<Some(sk.val), vk.val>>)
    ELSE IF private_key_str # None THEN
        LET sk == PrivateKey_from_str(private_key_str[1])
        IN  IF ~sk.ok THEN Err(sk.err)
            ELSE Ok(<<None, ViewKey_try_from(sk.val)>>)
    ELSE IF view_key_str # None THEN
        LET vk == ViewKey_from_str(view_key_str[1])
        IN  IF ~vk.ok THEN Err(vk.err) ELSE Ok(<<None, vk.val>>)
    ELSE Err("MissingCredential")

\* Result<(Option<PrivateKey>, ViewKey)> for the two optional strings.
parse_account(private_key_str, view_key_str) ==
    IF private_key_str # None /\ view_key_str # None THEN
        LET sk == PrivateKey_from_str(private_key_str[1])
            vk == ViewKey_from_str(view_key_str[1])
        IN  IF ~sk.ok THEN Err(sk.err)
            ELSE IF ~vk.ok THEN Err(vk.err)
            ELSE IF ViewKey_try_from(sk.val) # vk.val THEN Err("CredentialMismatch")
            ELSE Ok(<<Some(sk.val), vk.val>>)
    ELSE IF private_key_str # None THEN
        LET sk == PrivateKey_from_str(private_key_str[1])
        IN  IF ~sk.ok THEN Err(sk.err)
            ELSE Ok(<<Some(sk.val), ViewKey_try_from(sk.val)>>)
    ELSE IF view_key_str # None THEN
        LET vk == ViewKey_from_str(view_key_str[1])
        IN  IF ~vk.ok THEN Err(vk.err) ELSE Ok(<<None, vk.val>>)
    ELSE Err("MissingCredential")

ParseAccount ==
    /\ pc = "parse_account"
    /\ LET r == parse_account(scan[1].private_key, scan[1].view_key)
       IN  IF r.ok
           THEN /\ private_key' = r.val[1]
                /\ view_key' = Some(r.val[2])
                /\ pc' = StepAfter("parse_account")
                /\ UNCHANGED result
           ELSE /\ Fail(r.err)
                /\ UNCHANGED <<private_key, view_key>>
    /\ UNCHANGED <<first, scan, args, node, start_height, end_height, request_start,
                   blocks, cursor, records, stdout, log>>

\* ---------------------------------------------------- Scan::parse_end_height
\* Mutant of RangeIsValid: the comparison admits end = start.
RangeIsValid_inclusive(start, end) == end >= start

\* ensure!(end > self.start, ...)
RangeIsValid(start, end) == end > start

\* The tail of parse_end_height once `end` is known.
CheckRange(end) ==
    IF RangeIsValid(scan[1].start, end)
    THEN /\ end_height' = Some(end)
         /\ start_height' = scan[1].start
         /\ pc' = StepAfter("parse_end_height")
         /\ UNCHANGED result
    ELSE /\ Fail("InvalidRange")
         /\ UNCHANGED <<end_height, start_height>>

\* self.end is Some(height): no request.
ParseEndHeightExplicit ==
    /\ pc = "parse_end_height"
    /\ scan[1].end # None
    /\ CheckRange(scan[1].end[1])
    /\ UNCHANGED <<first, scan, args, node, private_key, view_key, request_start,
                   blocks, cursor, records, stdout, log>>

\* self.end is None: GET /testnet3/latest/height, then u32::from_str.
ParseEndHeightLatest ==
    /\ pc = "parse_end_height"
    /\ scan[1].end = None
    /\ \E answer \in {"ok", "transport", "malformed"} :
         /\ log' = Append(log, Event("height", 0, 0, answer))
         /\ CASE answer = "ok" ->
                   /\ stdout' = IF scan[1].start = 0
                                THEN Append(stdout, FullChainWarning) ELSE stdout
                   /\ CheckRange(node.latest_height)
              [] answer = "transport" ->
                   /\ Fail("EndpointUnavailable")
                   /\ UNCHANGED <<stdout, end_height, start_height>>
              [] answer = "malformed" ->
                   /\ Fail("MalformedResponse")
                   /\ UNCHANGED <<stdout, end_height, start_height>>
    /\ UNCHANGED <<first, scan, args, node, private_key, view_key, request_start,
                   blocks, cursor, records>>

\* ------------------------------------------------------ Scan::fetch_records
\* `if start_height > end_height { bail!("Invalid block range") }`
BoundsOk(start, end) == ~(start > end)

\* Mutant of FetchRecordsEnter: the accumulator is not created afresh.
FetchRecordsEnter_keep ==
    /\ pc = "fetch_records"
    /\ IF BoundsOk(start_height, end_height[1])
       THEN /\ request_start' = start_height
            /\ pc' = "loop"
            /\ UNCHANGED <<result, records>>
       ELSE /\ Fail("InvalidBlockRange")
            /\ UNCHANGED <<request_start, records>>
    /\ UNCHANGED <<first, scan, args, node, private_key, view_key, start_height,
                   end_height, blocks, cursor, stdout, log>>

FetchRecordsEnter ==
    /\ pc = "fetch_records"
    /\ IF BoundsOk(start_height, end_height[1])
       THEN /\ request_start' = start_height
            /\ records' = << >>
            /\ pc' = "loop"
            /\ UNCHANGED result
       ELSE /\ Fail("InvalidBlockRange")
            /\ UNCHANGED <<request_start, records>>
    /\ UNCHANGED <<first, scan, args, node, private_key, view_key, start_height,
                   end_height, blocks, cursor, stdout, log>>

\* Mutant of LoopCondition: the loop stops one height early.
LoopCondition_strict(rs, end) == rs < end

\* `while request_start <= end_height`
LoopCondition(rs, end) == rs <= end

\* Mutant of num_blocks_to_request: the page size is not capped.
num_blocks_uncapped(rs, end) == saturating_add(saturating_sub(end, rs), 1)

\* min(MAX_BLOCK_RANGE, end_height.saturating_sub(request_start).saturating_add(1))
num_blocks_to_request(rs, end) ==
    Min(MAX_BLOCK_RANGE, saturating_add(saturating_sub(end, rs), 1))

\* Mutant of request_end: the upper bound of the request is taken as inclusive.
request_end_inclusive(rs, end) ==
    saturating_sub(saturating_add(rs, num_blocks_to_request(rs, end)), 1)

\* request_start.saturating_add(num_blocks_to_request)
request_end(rs, end) == saturating_add(rs, num_blocks_to_request(rs, end))

\* The block-page requests issued so far, as <<start, end>> pairs.
Pages == SelectSeq(log, LAMBDA ev : ev.op = "blocks")

\* One iteration head: build the page request, issue it, parse the answer.
FetchPage ==
    /\ pc = "loop"
    /\ LoopCondition(request_start, end_height[1])
    /\ Len(Pages) < MaxPages
    /\ LET s == request_start
           e == request_end(request_start, end_height[1])
       IN  \E answer \in {"ok", "transport", "malformed"} :
             /\ log' = Append(log, Event("blocks", s, e, answer))
             /\ CASE answer = "ok" ->
                       /\ blocks' = BlocksResponse(node, s, e)
                       /\ cursor' = 1
                       /\ pc' = "scan"
                       /\ UNCHANGED result
                  [] answer = "transport" ->
                       /\ Fail("EndpointUnavailable")
                       /\ UNCHANGED <<blocks, cursor>>
                  [] answer = "malformed" ->
                       /\ Fail("MalformedResponse")
                       /\ UNCHANGED <<blocks, cursor>>
    /\ UNCHANGED <<first, scan, args, node, private_key, view_key, start_height,
                   end_height, request_start, records, stdout>>

\* ------------------------------------------------------ Scan::decrypt_record
\* What the find-transition request for a serial number may answer: success
\* when the node knows a spending transition, an error status otherwise, and
\* a transport error at any time.
FindAnswers(sn) ==
    {"transport"} \cup (IF sn \in node.spent THEN {"found"} ELSE {"notfound"})

\* Mutant of IsSpent: a successful lookup no longer excludes the record.
IsSpent_never(answer) == FALSE

\* `match ureq::get(&endpoint).call() { Ok(_) => ..., Err(_) => ... }`
IsSpent(answer) == answer = "found"

\* Mutant of decrypt_record: a transport error of the lookup is propagated.
decrypt_record_strict(sk, vk, commitment, ciphertext_record, answer) ==
    LET d == decrypt(ciphertext_record, vk)
        dec == Event("decrypt", commitment, 0, IF d.ok THEN "ok" ELSE "failed")
        plain == IF d.ok THEN Ok(Some(d.val)) ELSE Err(d.err)
    IN  IF sk # None
        THEN LET find == Event("find", serial_number(sk[1], commitment), 0, answer)
             IN  IF IsSpent(answer)
                 THEN [events |-> <<find>>, ret |-> Ok(None)]
                 ELSE IF answer = "transport"
                 THEN [events |-> <<find>>, ret |-> Err("EndpointUnavailable")]
                 ELSE [events |-> <<find, dec>>, ret |-> plain]
        ELSE [events |-> <<dec>>, ret |-> plain]

\* Mutant of decrypt_record: the record is decrypted before the lookup.
decrypt_record_eager(sk, vk, commitment, ciphertext_record, answer) ==
    LET d == decrypt(ciphertext_record, vk)
        dec == Event("decrypt", commitment, 0, IF d.ok THEN "ok" ELSE "failed")
        plain == IF d.ok THEN Ok(Some(d.val)) ELSE Err(d.err)
    IN  IF sk # None
        THEN LET find == Event("find", serial_number(sk[1], commitment), 0, answer)
             IN  IF ~d.ok
                 THEN [events |-> <<dec>>, ret |-> plain]
                 ELSE IF IsSpent(answer)
                 THEN [events |-> <<dec, find>>, ret |-> Ok(None)]
                 ELSE [events |-> <<dec, find>>, ret |-> plain]
        ELSE [events |-> <<dec>>, ret |-> plain]

\* decrypt_record for one owned record, given the endpoint's answer (unused
\* without a private key): the events it adds and the Result<Option<Record>>.
decrypt_record(sk, vk, commitment, ciphertext_record, answer) ==
    LET d == decrypt(ciphertext_record, vk)
        dec == Event("decrypt", commitment, 0, IF d.ok THEN "ok" ELSE "failed")
        plain == IF d.ok THEN Ok(Some(d.val)) ELSE Err(d.err)
    IN  IF sk # None
        THEN LET find == Event("find", serial_number(sk[1], commitment), 0, answer)
             IN  IF IsSpent(answer)
                 THEN [events |-> <<find>>, ret |-> Ok(None)]
                 ELSE [events |-> <<find, dec>>, ret |-> plain]
        ELSE [events |-> <<dec>>, ret |-> plain]

\* The ownership test of the inner loop.
Owned(ciphertext_record) ==
    is_owner(ciphertext_record, to_x_coordinate(view_key[1]))

\* One iteration of the inner loops: the next (commitment, ciphertext_record)
\* of the page.
ScanRecord ==
    /\ pc = "scan"
    /\ cursor <= Len(Flatten(blocks))
    /\ LET rec == Flatten(blocks)[cursor]
           test == Event("is_owner", rec.commitment, 0,
                         IF Owned(rec) THEN "owned" ELSE "other")
       IN  IF Owned(rec)
           THEN \E answer \in (IF private_key # None
                               THEN FindAnswers(serial_number(private_key[1], rec.commitment))
                               ELSE {"none"}) :
                  LET r == decrypt_record(private_key, view_key[1], rec.commitment, rec, answer)
                  IN  /\ log' = log \o <<test>> \o r.events
                      /\ IF r.ret.ok
                         THEN /\ records' = IF r.ret.val # None
                                            THEN Append(records, r.ret.val[1])
                                            ELSE records
                              /\ cursor' = cursor + 1
                              /\ UNCHANGED <<pc, result>>
                         ELSE /\ Fail(r.ret.err)
                              /\ UNCHANGED <<records, cursor>>
           ELSE /\ log' = Append(log, test)
                /\ cursor' = cursor + 1
                /\ UNCHANGED <<records, pc, result>>
    /\ UNCHANGED <<first, scan, args, node, private_key, view_key, start_height,
                   end_height, request_start, blocks, stdout>>

\* Mutant of NextPage: the loop moves on before the page is exhausted.
NextPage_early ==
    /\ pc = "scan"
    /\ request_start' = saturating_add(request_start,
                                       num_blocks_to_request(request_start, end_height[1]))
    /\ pc' = "loop"
    /\ UNCHANGED <<first, scan, args, node, private_key, view_key, start_height,
                   end_height, blocks, cursor, records, result, stdout, log>>

\* The page is exhausted: `request_start = request_start.saturating_add(...)`.
NextPage ==
    /\ pc = "scan"
    /\ cursor > Len(Flatten(blocks))
    /\ request_start' = saturating_add(request_start,
                                       num_blocks_to_request(request_start, end_height[1]))
    /\ pc' = "loop"
    /\ UNCHANGED <<first, scan, args, node, private_key, view_key, start_height,
                   end_height, blocks, cursor, records, result, stdout, log>>

\* The loop condition fails: `Ok(records)`.
FetchRecordsReturn ==
    /\ pc = "loop"
    /\ ~LoopCondition(request_start, end_height[1])
    /\ IF scan # None
       THEN /\ pc' = "output"
            /\ UNCHANGED result
       ELSE /\ pc' = "done"
            /\ result' = Some(Ok(records))
    /\ UNCHANGED <<first, scan, args, node, private_key, view_key, start_height,
                   end_height, request_start, blocks, cursor, records, stdout, log>>

\* ------------------------------------------------------- Scan::parse, output
\* Mutant of PrintsSpentWarning: the advisory is printed for an empty list too.
PrintsSpentWarning_always(recs, sk) == sk = None

\* `if private_key.is_none() { println!(...) }`, inside the non-empty branch.
PrintsSpentWarning(recs, sk) == recs # << >> /\ sk = None

\* Mutant of Output: the empty list is serialised like any other.
Output_json_always ==
    /\ pc = "output"
    /\ stdout' = IF PrintsSpentWarning(records, private_key)
                 THEN Append(stdout, SpentWarning) ELSE stdout
    /\ result' = Some(Ok([text |-> "json", records |-> records]))
    /\ pc' = "done"
    /\ UNCHANGED <<first, scan, args, node, private_key, view_key, start_height,
                   end_height, request_start, blocks, cursor, records, log>>

Output ==
    /\ pc = "output"
    /\ stdout' = IF PrintsSpentWarning(records, private_key)
                 THEN Append(stdout, SpentWarning) ELSE stdout
    /\ result' = Some(Ok(IF records = << >>
                         THEN [text |-> "No records found", records |-> << >>]
                         ELSE [text |-> "json", records |-> records]))
    /\ pc' = "done"
    /\ UNCHANGED <<first, scan, args, node, private_key, view_key, start_height,
                   end_height, request_start, blocks, cursor, records, log>>

Next ==
    \/ ParseAccount
    \/ ParseEndHeightExplicit
    \/ ParseEndHeightLatest
    \/ FetchRecordsEnter
    \/ FetchPage
    \/ ScanRecord
    \/ NextPage
    \/ FetchRecordsReturn
    \/ Output

Spec == Init /\ [][Next]_vars

\* ------------------------------------------------------------ a second scan
\* The same invocation is made once more against the same node.  What the
\* first one observed is kept in `first`; the parameters are bound as at the
\* entry.  The locals of fetch_records (request_start, blocks, cursor,
\* records) are left as they are: the code assigns each of them before it
\* reads it.
Rescan ==
    /\ pc = "done"
    /\ first = None
    /\ first' = Some([log |-> log, result |-> result[1], stdout |-> stdout])
    /\ log' = << >>
    /\ result' = None
    /\ stdout' = << >>
    /\ IF scan # None
       THEN /\ pc' = ParseOrder[1]
            /\ private_key' = None
            /\ view_key' = None
            /\ start_height' = 0
            /\ end_height' = None
       ELSE /\ pc' = "fetch_records"
            /\ private_key' = args[1].private_key
            /\ view_key' = Some(args[1].view_key)
            /\ start_height' = args[1].start_height
            /\ end_height' = Some(args[1].end_height)
    /\ UNCHANGED <<scan, args, node, request_start, blocks, cursor, records>>

NextTwice ==
    \/ ParseAccount
    \/ ParseEndHeightExplicit
    \/ ParseEndHeightLatest
    \/ FetchRecordsEnter
    \/ FetchPage
    \/ ScanRecord
    \/ NextPage
    \/ FetchRecordsReturn
    \/ Output
    \/ Rescan

\* Two scans of the same input in a row.
SpecTwice == Init /\ [][NextTwice]_vars

\* =================================================================== claims
\* fetch_records has returned Ok(records).
FetchReturnedOk == pc = "output" \/ (pc = "done" /\ result[1].ok)

\* The invocation ended with an error.
Failed == result # None /\ ~result[1].ok

CeilDiv(a, b) == (a + b - 1) \div b

\* The accumulated / returned plaintext records.
ResultSet == records

\* All ciphertext records of the node's chain, in chain order.
RECURSIVE ChainRecords(_)
ChainRecords(rs) ==
    IF rs = << >> THEN << >> ELSE Head(rs)[2] \o ChainRecords(Tail(rs))

\* The ciphertext record a commitment belongs to.
CipherOf(cm) ==
    LET all == ChainRecords(node.records)
    IN  all[CHOOSE i \in 1..Len(all) : all[i].commitment = cm]

InSeq(x, sq) == \E i \in 1..Len(sq) : sq[i] = x

\* C1: the block-page requests [s_i, e_i) of fetch_records start at start,
\* each begins where the previous one ended, none is wider than
\* MAX_BLOCK_RANGE, none reaches above end, each covers at least its own
\* start height (an empty page leaves that height uncovered, and since the
\* loop position does not move it stays uncovered), and when the function
\* returns the last page ends at end + 1: start..end is covered exactly once.
C1_PagesCoverRange ==
    pc \in {"loop", "scan", "output", "done"} =>
        /\ \A i \in 1..Len(Pages) :
             /\ Pages[i].a = IF i = 1 THEN start_height ELSE Pages[i - 1].b
             /\ Pages[i].b - Pages[i].a <= MAX_BLOCK_RANGE
             /\ Pages[i].a < Pages[i].b
             /\ Pages[i].b <= end_height[1] + 1
        /\ (FetchReturnedOk /\ end_height # None) =>
             /\ Pages # << >>
             /\ Pages[Len(Pages)].b = end_height[1] + 1

\* C2 (as amended): a scan of a range wider than the page size that returns
\* successfully has issued exactly ceil((end - start + 1) / MAX_BLOCK_RANGE)
\* block-page requests: the range start..end counts both of its end heights.
C2_PageCountInclusive ==
    (FetchReturnedOk /\ end_height # None
        /\ end_height[1] - start_height > MAX_BLOCK_RANGE) =>
        Len(Pages) = CeilDiv(end_height[1] - start_height + 1, MAX_BLOCK_RANGE)

\* C2 (as claimed): the number of requests is ceil((end - start) / page_size).
C2_PageCountAsClaimed ==
    (FetchReturnedOk /\ end_height # None
        /\ end_height[1] - start_height > MAX_BLOCK_RANGE) =>
        Len(Pages) = CeilDiv(end_height[1] - start_height, MAX_BLOCK_RANGE)

\* C2 witness: a successful scan of 0..100 (width 100, 101 heights, 3 pages).
C2_Witness ==
    /\ FetchReturnedOk
    /\ end_height # None
    /\ end_height[1] - start_height = 2 * MAX_BLOCK_RANGE
    /\ Len(Pages) = 3

\* C1 restricted to ranges whose end is below the largest height: there the
\* pages do cover start..end exactly once (what separates the defect from
\* the rest of the claim).
PagesCoverRangeBelowMax ==
    (end_height # None /\ end_height[1] < U32_MAX) => C1_PagesCoverRange

\* The commitment a find-transition request is about.
FindCommitment(ev) == ev.a[3]

\* Indices of the log at which a find-transition request got the answers `as`.
Finds(as) == {i \in 1..Len(log) : log[i].op = "find" /\ log[i].res \in as}

\* The plaintext form of the record with commitment cm under the view key.
PlainOf(cm) == decrypt(CipherOf(cm), view_key[1]).val

\* The decryption of commitment cm was attempted right after log entry i.
DecryptFollows(i, cm) ==
    /\ i < Len(log)
    /\ log[i + 1].op = "decrypt"
    /\ log[i + 1].a = cm

\* C3: with a spending credential, an owned record whose find-transition
\* lookup reports found is never in the Result Set and the lookup raises no
\* error; one whose lookup reports not found is decrypted next, is in the
\* accumulator in decrypted form unless that decryption failed, and is in
\* every Result Set the scan returns.
C3_SpendFilter ==
    /\ \A i \in Finds({"found"}) :
         /\ private_key # None
         /\ \A j \in 1..Len(ResultSet) : ResultSet[j].commitment # FindCommitment(log[i])
         /\ i = Len(log) => ~Failed
    /\ \A i \in Finds({"notfound"}) :
         /\ DecryptFollows(i, FindCommitment(log[i]))
         /\ log[i + 1].res = "ok" => InSeq(PlainOf(FindCommitment(log[i])), ResultSet)
         /\ FetchReturnedOk => InSeq(PlainOf(FindCommitment(log[i])), ResultSet)

\* C3 witness: a returned Result Set of a scan that saw a spent record (found)
\* and an unspent one (not found).
C3_Witness ==
    /\ FetchReturnedOk
    /\ Finds({"found"}) # {}
    /\ Finds({"notfound"}) # {}
    /\ ResultSet # << >>

\* A log entry that is a fatal failure of fetch_records: a block-page request
\* that failed or did not parse, or a decryption that failed.
IsFatal(ev) ==
    \/ ev.op = "blocks" /\ ev.res # "ok"
    \/ ev.op = "decrypt" /\ ev.res # "ok"

\* C4: a failed block-page request or a failed decryption is the last thing
\* the scan does: it ends with an error that carries no records, and nothing
\* is requested after it.
C4_FailureAborts ==
    \A i \in 1..Len(log) :
        IsFatal(log[i]) =>
            /\ i = Len(log)
            /\ pc = "done"
            /\ Failed
            /\ result[1].val = << >>
            /\ result[1].err \in {"EndpointUnavailable", "MalformedResponse", "DecryptionFailed"}

\* C4 witness: a page request fails after earlier pages accumulated records.
C4_Witness ==
    /\ Failed
    /\ records # << >>
    /\ Len(Pages) >= 2
    /\ log[Len(log)].op = "blocks"
    /\ log[Len(log)].res = "transport"

\* The ciphertext record passes the ownership test of the resolved view key.
PassesOwnership(cm) == CipherOf(cm).tag = to_x_coordinate(view_key[1])

\* C5: only records that pass the ownership test are spend-checked or
\* decrypted, and every record of the Result Set is the plaintext of a
\* ciphertext record that passed it.
C5_OwnershipFilter ==
    /\ \A i \in 1..Len(log) :
         /\ log[i].op = "decrypt" => PassesOwnership(log[i].a)
         /\ log[i].op = "find" => PassesOwnership(FindCommitment(log[i]))
         /\ (log[i].op = "is_owner" /\ log[i].res = "other") =>
              /\ ~PassesOwnership(log[i].a)
              /\ (i < Len(log) => log[i + 1].op \in {"is_owner", "blocks"})
    /\ \A j \in 1..Len(ResultSet) :
         /\ PassesOwnership(ResultSet[j].commitment)
         /\ ResultSet[j] = PlainOf(ResultSet[j].commitment)

\* C5 witness: a returned Result Set of a scan that met a record of another
\* owner and kept an owned one.
C5_Witness ==
    /\ FetchReturnedOk
    /\ ResultSet # << >>
    /\ \E i \in 1..Len(log) : log[i].op = "is_owner" /\ log[i].res = "other"

\* Both credential strings were supplied to Scan::parse and both are well formed.
BothSuppliedAndParse ==
    /\ scan # None
    /\ scan[1].private_key # None
    /\ scan[1].view_key # None
    /\ PrivateKey_from_str(scan[1].private_key[1]).ok
    /\ ViewKey_from_str(scan[1].view_key[1]).ok

\* C6: with both credentials supplied and well formed, parse_account yields
\* the pair exactly when the supplied view key is the one derived from the
\* private key, and otherwise the scan fails with the credential-mismatch error.
C6_CredentialMatch ==
    (BothSuppliedAndParse /\ pc # "parse_account") =>
        LET sk == PrivateKey_from_str(scan[1].private_key[1]).val
            vk == ViewKey_from_str(scan[1].view_key[1]).val
        IN  IF vk.vk = sk.sk
            THEN /\ private_key = Some(sk)
                 /\ view_key = Some(vk)
                 /\ Failed => result[1].err \notin
                        {"CredentialMismatch", "InvalidCredentialFormat", "MissingCredential"}
            ELSE /\ result = Some(Err("CredentialMismatch"))
                 /\ private_key = None
                 /\ view_key = None

\* C6 witness: a well-formed pair that does not correspond was rejected.
C6_Witness ==
    /\ BothSuppliedAndParse
    /\ scan[1].private_key[1] = "APrivateKey1a"
    /\ scan[1].view_key[1] = "AViewKey1b"
    /\ result = Some(Err("CredentialMismatch"))

\* parse_end_height has run (parse_account succeeded before it).
RangePlanned ==
    /\ scan # None
    /\ view_key # None
    /\ pc \notin {"parse_account", "parse_end_height"}

\* The outcome of the range check for a resolved end height.
RangeOutcome(end) ==
    IF end > scan[1].start
    THEN /\ end_height = Some(end)
         /\ Failed => result[1].err # "InvalidRange"
    ELSE /\ result = Some(Err("InvalidRange"))
         /\ end_height = None

\* C7: parse_end_height returns the resolved end exactly when end > start and
\* fails with the invalid-range error otherwise (end = start included); an
\* explicit end is used as it is and no request is issued for it.
C7_RangePlanner ==
    RangePlanned =>
        IF scan[1].end # None
        THEN /\ RangeOutcome(scan[1].end[1])
             /\ \A i \in 1..Len(log) : log[i].op # "height"
        ELSE /\ log # << >>
             /\ log[1].op = "height"
             /\ IF log[1].res = "ok"
                THEN RangeOutcome(node.latest_height)
                ELSE /\ Failed
                     /\ result[1].err \in {"EndpointUnavailable", "MalformedResponse"}
                     /\ end_height = None

\* C7 witness: an explicit end equal to start is rejected without a request.
C7_Witness ==
    /\ RangePlanned
    /\ scan[1].end = Some(scan[1].start)
    /\ result = Some(Err("InvalidRange"))
    /\ log = << >>

\* C8: an error answer of the find-transition lookup, transport failure or
\* not-found alike, is followed by the decryption of the record, which is
\* accumulated when the decryption succeeds and is in every Result Set the
\* scan returns; the scan never fails on a lookup: when it fails, the last
\* thing it did was not a find-transition request, and an endpoint error is
\* that of a height or block-page request.
C8_SpendCheckErrorsAbsorbed ==
    /\ \A i \in Finds({"transport", "notfound"}) :
         /\ DecryptFollows(i, FindCommitment(log[i]))
         /\ log[i + 1].res = "ok" => InSeq(PlainOf(FindCommitment(log[i])), ResultSet)
    /\ (Failed /\ log # << >>) =>
         /\ log[Len(log)].op # "find"
         /\ result[1].err = "EndpointUnavailable" => log[Len(log)].op \in {"height", "blocks"}

\* C8 witness: the lookup of a record the node knows as spent failed in
\* transport, and the record is in the returned Result Set.
C8_Witness ==
    /\ FetchReturnedOk
    /\ \E i \in Finds({"transport"}) :
         /\ log[i].a \in node.spent
         /\ InSeq(PlainOf(FindCommitment(log[i])), ResultSet)

\* Scan::parse returned Ok.
ParseOk == scan # None /\ pc = "done" /\ result[1].ok

\* C9 (as amended): a successful scan prints the spent-state advisory exactly
\* when no spending credential was supplied and the Result Set is not empty.
C9_AdvisoryWhenNonEmpty ==
    ParseOk =>
        (InSeq(SpentWarning, stdout)
            <=> (scan[1].private_key = None /\ result[1].val.records # << >>))

\* C9 (as claimed): a successful scan prints the advisory exactly when no
\* spending credential was supplied.
C9_AdvisoryAsClaimed ==
    ParseOk => (InSeq(SpentWarning, stdout) <=> scan[1].private_key = None)

\* C9 witness: a view-only scan returned records and printed the advisory.
C9_Witness ==
    /\ ParseOk
    /\ scan[1].private_key = None
    /\ result[1].val.records # << >>
    /\ InSeq(SpentWarning, stdout)

\* The plaintexts of the records of the heights s..e that carry the view
\* key's ownership tag, in chain order.
OwnedPlain(s, e) ==
    LET all == Flatten(BlocksResponse(node, s, e + 1))
        owned == SelectSeq(all, LAMBDA c : c.tag = to_x_coordinate(view_key[1]))
    IN  [i \in 1..Len(owned) |-> decrypt(owned[i], view_key[1]).val]

\* C10: without a spending credential no find-transition request is issued,
\* every owned record is decrypted right after its ownership test, and the
\* Result Set returned is exactly the plaintexts of the owned records of the
\* heights start..end.
C10_ViewOnly ==
    private_key = None =>
        /\ Finds({"found", "notfound", "transport", "none"}) = {}
        /\ \A i \in 1..Len(log) :
             (log[i].op = "is_owner" /\ log[i].res = "owned") => DecryptFollows(i, log[i].a)
        /\ (FetchReturnedOk /\ end_height # None) =>
             ResultSet = OwnedPlain(start_height, end_height[1])

\* C10 witness: a view-only scan over several pages returned owned records
\* and passed over a record of another owner.
C10_Witness ==
    /\ FetchReturnedOk
    /\ private_key = None
    /\ Len(Pages) >= 2
    /\ Len(ResultSet) >= 2
    /\ \E i \in 1..Len(log) : log[i].op = "is_owner" /\ log[i].res = "other"

\* The requests issued so far: height, block-page and find-transition.
Requests == SelectSeq(log, LAMBDA ev : ev.op \in {"height", "blocks", "find"})

\* C11: a scan that fails with an invalid-format, credential-mismatch or
\* missing-credential error has issued no request of any kind (it has not
\* touched the endpoint at all), and one that fails with the invalid-range
\* error has issued no block-page and no find-transition request.
C11_ValidationBeforeNetwork ==
    Failed =>
        /\ result[1].err \in {"InvalidCredentialFormat", "CredentialMismatch", "MissingCredential"}
             => (Requests = << >> /\ log = << >>)
        /\ result[1].err = "InvalidRange" =>
             \A i \in 1..Len(log) : log[i].op = "height"

\* C11 witness: a scan whose end height would have to be asked from the
\* endpoint is rejected for its credentials before anything is requested.
C11_Witness ==
    /\ scan # None
    /\ scan[1].end = None
    /\ Failed
    /\ result[1].err \in {"InvalidCredentialFormat", "CredentialMismatch", "MissingCredential"}
    /\ Requests = << >>

\* Two log entries are the same event.
SameEvent(x, y) == x.op = y.op /\ x.res = y.res /\ x.b = y.b /\ x.a = y.a

\* Two log entries are the same action of the client: the same request,
\* whatever the endpoint answered, or the same local computation and outcome.
SameAction(x, y) ==
    /\ x.op = y.op
    /\ x.b = y.b
    /\ x.a = y.a
    /\ x.op \in {"is_owner", "decrypt"} => x.res = y.res

\* The first n entries of the second scan's log are those of the first scan's.
AgreeUpTo(n) == \A j \in 1..n : SameEvent(log[j], first[1].log[j])

NoOwnedSeen ==
    \A i \in 1..Len(log) : log[i].op = "is_owner" => ~PassesOwnership(log[i].a)

\* Every block-page request so far was answered with a page.
AllPagesOk == \A i \in 1..Len(log) : log[i].op = "blocks" => log[i].res = "ok"

PagesOfRange == CeilDiv(end_height[1] - start_height + 1, MAX_BLOCK_RANGE)

\* C14: the paging loop of fetch_records terminates for every start <= end:
\* every page moves the loop position forward, so that the position exceeds
\* end after the pages the range holds and no further page is requested.
C14_LoopTerminates ==
    (pc \in {"loop", "scan", "output", "done"} /\ end_height # None /\ Pages # << >>) =>
        /\ pc = "loop" => request_start > Pages[Len(Pages)].a
        /\ Len(Pages) <= PagesOfRange

\* Indices of the block-page requests that were answered with a page.
PageIndices == {k \in 1..Len(log) : log[k].op = "blocks" /\ log[k].res = "ok"}

\* Index of the next block-page request after log entry k (Len(log) + 1 when
\* there is none).
NextBlocks(k) ==
    LET later == {j \in (k + 1)..Len(log) : log[j].op = "blocks"}
    IN  IF later = {} THEN Len(log) + 1
        ELSE CHOOSE j \in later : \A m \in later : j <= m

\* The commitments ownership-tested between the page request k and the next.
TestedOf(k) ==
    LET evs == SelectSeq(SubSeq(log, k + 1, NextBlocks(k) - 1),
                         LAMBDA ev : ev.op = "is_owner")
    IN  [i \in 1..Len(evs) |-> evs[i].a]

\* The commitments of the records of the page requested at log entry k.
ExpectedOf(k) ==
    LET recs == Flatten(BlocksResponse(node, log[k].a, log[k].b))
    IN  [i \in 1..Len(recs) |-> recs[i].commitment]

\* The scan has left the page requested at log entry k without failing.
PageLeft(k) ==
    \/ NextBlocks(k) <= Len(log)
    \/ pc \in {"loop", "output"}
    \/ pc = "done" /\ ~Failed

\* C15: the records of a page are ownership-tested in order between its
\* request and the next one; when the next page is requested every record of
\* the page has been tested, and the entry before any block-page request is
\* a finished piece of work: never an owned record still to be handled nor a
\* lookup whose decryption is still to come.  Every request is logged with
\* its answer, so none is outstanding when the next is issued.
C15_OnePageAtATime ==
    /\ \A k \in PageIndices :
         /\ Len(TestedOf(k)) <= Len(ExpectedOf(k))
         /\ TestedOf(k) = SubSeq(ExpectedOf(k), 1, Len(TestedOf(k)))
         /\ PageLeft(k) => TestedOf(k) = ExpectedOf(k)
    /\ \A k \in 2..Len(log) :
         log[k].op = "blocks" =>
            /\ ~(log[k - 1].op = "is_owner" /\ log[k - 1].res = "owned")
            /\ ~(log[k - 1].op = "find" /\ log[k - 1].res # "found")
            /\ ~(log[k - 1].op = "decrypt" /\ log[k - 1].res # "ok")
            /\ ~(log[k - 1].op = "blocks" /\ log[k - 1].res # "ok")

\* C15 witness: a second page was requested after the first page's owned
\* record had been looked up and decrypted.
C15_Witness ==
    /\ Len(Pages) >= 2
    /\ \E k \in PageIndices :
         /\ NextBlocks(k) <= Len(log)
         /\ Len(ExpectedOf(k)) >= 2
         /\ log[NextBlocks(k) - 1].op = "decrypt"
         /\ log[NextBlocks(k) - 2].op = "find"

\* The commitments of all pages received so far, concatenated in request
\* order: blocks as received, records as they appear in a block.
RECURSIVE ConcatPages(_)
ConcatPages(k) ==
    IF k > Len(log) THEN << >>
    ELSE (IF k \in PageIndices THEN ExpectedOf(k) ELSE << >>) \o ConcatPages(k + 1)

\* The commitments whose decryption succeeded, in log order.
Included ==
    LET evs == SelectSeq(log, LAMBDA ev : ev.op = "decrypt" /\ ev.res = "ok")
    IN  [i \in 1..Len(evs) |-> evs[i].a]

\* Position of the first occurrence of x in sq (0 when absent).
PosIn(x, sq) ==
    LET at == {i \in 1..Len(sq) : sq[i] = x}
    IN  IF at = {} THEN 0 ELSE CHOOSE i \in at : \A m \in at : i <= m

\* C16: the block-page requests are issued in strictly ascending order of
\* their start height, and the accumulated Result Set is the plaintexts of
\* the included records in the order in which the records appear in the
\* concatenation of the pages.
C16_AscendingOrder ==
    pc \in {"loop", "scan", "output", "done"} =>
        /\ \A i, j \in 1..Len(Pages) : i < j => Pages[i].a < Pages[j].a
        /\ Len(ResultSet) = Len(Included)
        /\ \A j \in 1..Len(ResultSet) :
             /\ ResultSet[j].commitment = Included[j]
             /\ ResultSet[j] = PlainOf(Included[j])
             /\ PosIn(Included[j], ConcatPages(1)) > 0
        /\ \A j, k \in 1..Len(ResultSet) :
             j < k => PosIn(ResultSet[j].commitment, ConcatPages(1))
                        < PosIn(ResultSet[k].commitment, ConcatPages(1))

\* parse_account has run on the Scan struct.
AccountResolved == scan # None /\ pc # "parse_account"

\* parse_account succeeded: the scan went on, or failed later for another reason.
AccountOk ==
    /\ AccountResolved
    /\ Failed => result[1].err \notin
           {"CredentialMismatch", "InvalidCredentialFormat", "MissingCredential"}

\* C17: parse_account decides every presence case of well-formed strings:
\* neither credential fails with the missing-credential error, a lone view
\* key yields no private key and that view key, a lone private key yields it
\* and the view key derived from it, and whenever the result carries a
\* private key its view key is the one derived from that private key.
C17_ResolverTotal ==
    AccountResolved =>
        LET p == scan[1].private_key
            v == scan[1].view_key
        IN  /\ (p = None /\ v = None) =>
                 /\ result = Some(Err("MissingCredential"))
                 /\ view_key = None
            /\ (p = None /\ v # None /\ ViewKey_from_str(v[1]).ok) =>
                 /\ AccountOk
                 /\ private_key = None
                 /\ view_key = Some(ViewKey_from_str(v[1]).val)
            /\ (p # None /\ v = None /\ PrivateKey_from_str(p[1]).ok) =>
                 /\ AccountOk
                 /\ private_key = Some(PrivateKey_from_str(p[1]).val)
                 /\ view_key = Some([vk |-> private_key[1].sk])
            /\ (AccountOk /\ private_key # None) =>
                 /\ view_key # None
                 /\ view_key[1].vk = private_key[1].sk
                 /\ p # None
                 /\ private_key[1] = PrivateKey_from_str(p[1]).val

\* C17 witness: a lone private key was resolved to itself and its view key.
C17_Witness ==
    /\ AccountOk
    /\ scan[1].private_key = Some("APrivateKey1b")
    /\ scan[1].view_key = None
    /\ private_key = Some([sk |-> "b"])
    /\ view_key = Some([vk |-> "b"])

\* C18: for start <= end below the largest height no saturating operation
\* clamps: every block-page request [s, e) has e = s + min(50, end - s + 1)
\* in plain arithmetic, so 1 <= e - s <= 50 and e <= end + 1; the start of
\* each request is above that of the one before, the loop position after a
\* page is that page's e, and the last request of a returned scan ends at
\* end + 1.
C18_NoClampBelowMax ==
    (pc \in {"loop", "scan", "output", "done"} /\ end_height # None
        /\ end_height[1] < U32_MAX) =>
        /\ \A i \in 1..Len(Pages) :
             LET s == Pages[i].a
                 e == Pages[i].b
             IN  /\ e = s + Min(MAX_BLOCK_RANGE, end_height[1] - s + 1)
                 /\ 1 <= e - s
                 /\ e - s <= MAX_BLOCK_RANGE
                 /\ e <= end_height[1] + 1
                 /\ i > 1 => s > Pages[i - 1].a
        /\ (pc = "loop" /\ Pages # << >>) => request_start = Pages[Len(Pages)].b
        /\ (FetchReturnedOk /\ Pages # << >>) => Pages[Len(Pages)].b = end_height[1] + 1

\* C18 witness: a scan up to the height below the largest one returned after
\* two pages, the last of which ends at the largest height.
C18_Witness ==
    /\ FetchReturnedOk
    /\ end_height = Some(U32_MAX - 1)
    /\ Len(Pages) >= 2
    /\ Pages[Len(Pages)].b = U32_MAX

\* C19: with a spending credential every owned record is followed at once by
\* one find-transition request for its serial number, and there is no other
\* find-transition request; a decryption comes only right after the lookup
\* of the same record, and only when that lookup did not report the record
\* as spent; a record reported as spent is never decrypted, so a failed
\* decryption is always that of a record not reported as spent.
C19_SpendCheckFirst ==
    private_key # None =>
        /\ \A i \in 1..Len(log) :
             /\ (log[i].op = "is_owner" /\ log[i].res = "owned") =>
                  /\ i < Len(log)
                  /\ log[i + 1].op = "find"
                  /\ log[i + 1].a = serial_number(private_key[1], log[i].a)
             /\ log[i].op = "find" =>
                  /\ i > 1
                  /\ log[i - 1].op = "is_owner"
                  /\ log[i - 1].res = "owned"
                  /\ log[i - 1].a = FindCommitment(log[i])
                  /\ \A j \in 1..Len(log) :
                       (log[j].op = "find" /\ log[j].a = log[i].a) => j = i
             /\ log[i].op = "decrypt" =>
                  /\ i > 1
                  /\ log[i - 1].op = "find"
                  /\ FindCommitment(log[i - 1]) = log[i].a
                  /\ log[i - 1].res # "found"
        /\ \A i \in Finds({"found"}) :
             /\ \A j \in 1..Len(log) :
                  ~(log[j].op = "decrypt" /\ log[j].a = FindCommitment(log[i]))
             /\ i = Len(log) => ~Failed

\* C19 witness: a record whose payload does not decode was reported as spent
\* and the scan returned.
C19_Witness ==
    /\ FetchReturnedOk
    /\ \E i \in Finds({"found"}) : ~CipherOf(FindCommitment(log[i])).sound

\* C20: a range accepted by parse_end_height (end > start) passes the bounds
\* check of fetch_records, so a scan through Scan::parse never fails with
\* "Invalid block range"; fetch_records called directly fails with it exactly
\* when start > end, and for start = end it issues one block-page request,
\* [start, start + 1), and no other.
C20_RangeChecksConsistent ==
    /\ scan # None =>
         /\ Failed => result[1].err # "InvalidBlockRange"
         /\ end_height # None =>
              (end_height[1] > start_height /\ BoundsOk(start_height, end_height[1]))
    /\ (args # None /\ pc # "fetch_records") =>
         /\ (Failed /\ result[1].err = "InvalidBlockRange") <=> start_height > end_height[1]
         /\ start_height = end_height[1] =>
              /\ Len(Pages) <= 1
              /\ \A i \in 1..Len(Pages) :
                   Pages[i].a = start_height /\ Pages[i].b = start_height + 1
              /\ FetchReturnedOk => Len(Pages) = 1

====
